---- MODULE Spec2Model ----
(***************************************************************************)
(* Model of projected_normal/general/pdf.py: pdf, log_pdf and _M_value.    *)
(*                                                                         *)
(* Tensors of floats are sequences (vectors) and sequences of rows         *)
(* (matrices) of IEEE-754 binary32 numbers, the default dtype of torch.    *)
(* A float is held as the integer whose magnitude is the 31 bits of its    *)
(* pattern below the sign bit and whose sign is the sign of the float:     *)
(* 1.0 is 1065353216, -2.0 is -1073741824, 0.0 is 0.  The integers then    *)
(* stand in the order of the floats they hold.  Minus zero, which has no   *)
(* integer of its own in this scheme, is held as NegZero.                  *)
(* Addition, subtraction, multiplication, division and square root are     *)
(* rounded to nearest, ties to even, with subnormals, signed zeros,        *)
(* infinities and nan.  exp, log and erf are the library's: it returns one *)
(* of the two floats that the exact value lies between, on some arguments  *)
(* the one below and on others the one above, and the same float whenever  *)
(* the same argument comes back.  The exact value is summed in fixed point *)
(* with 70 bits below the point; what the library has returned is held in  *)
(* the variable kernel.  The operations on single floats are functions on  *)
(* the integers, so that their arguments are values when they are applied. *)
(***************************************************************************)
EXTENDS Integers, Sequences, FiniteSets, TLC

\* F applied to the value of v
Bind(v, F(_)) == CHOOSE r \in {F(x) : x \in {v}} : TRUE

\* the sequence s, held by its entries
Entries(s) == SubSeq(s, 1, Len(s))

\* ------------------------------------------------------------------------
\* binary32 arithmetic (the float arithmetic of the tensors)
\* ------------------------------------------------------------------------

\* -0.0
NegZero == -2147483647

\* +inf (0x7F800000)
Inf == 2139095040

\* nan (0x7FC00000)
NaN == 2143289344

\* 1.0
One == 1065353216

\* 2.0
Two == 1073741824

\* 0.5
Half == 1056964608

\* torch.abs: the float without its sign
Abs(a) == IF a = NegZero THEN 0 ELSE IF a < 0 THEN -a ELSE a

\* the sign of a float or of an integer: -1 for those below zero and for -0.0
Sgn(a) == IF a < 0 THEN -1 ELSE 1

\* the float of sign s and magnitude bits m
Signed(s, m) == IF s = 1 THEN m ELSE IF m = 0 THEN NegZero ELSE -m

IsZero(a) == a = 0 \/ a = NegZero

IsNaN(a) == Abs(a) > Inf

IsInf(a) == Abs(a) = Inf

\* q with its lowest bit set when bits were lost below it
Jam(q, lost) == IF lost /\ (q % 2) = 0 THEN q + 1 ELSE q

\* x shifted right by k bits, the bits shifted out kept as a set lowest bit
ShiftRightJam[x \in Nat, k \in Nat] ==
    IF k = 0 THEN x
    ELSE IF k >= 31 THEN (IF x = 0 THEN 0 ELSE 1)
    ELSE Jam(x \div 2^k, (x % 2^k) # 0)

\* the significand of the finite float of magnitude bits b > 0, brought into
\* [2^23, 2^24)
SigOf[b \in Nat] ==
    IF b >= 2^23 THEN 2^23 + (b % 2^23)
    ELSE IF b >= 2^22 THEN 2 * b
    ELSE SigOf[2 * b]

\* its exponent: the float is SigOf * 2^ExponentOf
ExponentOf[b \in Nat] ==
    IF b >= 2^23 THEN (b \div 2^23) - 150
    ELSE IF b >= 2^22 THEN -150
    ELSE ExponentOf[2 * b] - 1

\* the ways of rounding: to the nearest float and to even on a tie (that of
\* the arithmetic), to the float next to the exact value on the side of zero,
\* and to the one on the other side
Nearest == 0

TowardZero == -1

AwayFromZero == 1

\* sig, of 27 bits, rounded to 24 bits in the way m
RoundSig[sig \in Nat, m \in Int] ==
    (sig \div 8)
    + (IF m = Nearest
       THEN (IF (sig % 8) > 4 \/ ((sig % 8) = 4 /\ ((sig \div 8) % 2) = 1) THEN 1 ELSE 0)
       ELSE IF m = AwayFromZero /\ (sig % 8) # 0 THEN 1 ELSE 0)

\* the magnitude bits of sig * 2^e for sig in [2^26, 2^27)
Encode[sig \in Nat, e \in Int, m \in Int] ==
    IF e >= 102 THEN Inf
    ELSE IF e >= -152
         THEN (IF (e + 152) * 2^23 + RoundSig[sig, m] >= Inf THEN Inf
               ELSE (e + 152) * 2^23 + RoundSig[sig, m])
         ELSE RoundSig[ShiftRightJam[sig, -152 - e], m]

\* s * sig * 2^e rounded to a float in the way m, s = 1 or -1, sig < 2^31
\* with its lowest bit standing for everything below it; an exact zero is
\* +0.0, a result that rounds to zero keeps its sign
Pack[s \in Int, sig \in Nat, e \in Int, m \in Int] ==
    IF sig = 0 THEN 0
    ELSE IF sig >= 2^27 THEN Pack[s, ShiftRightJam[sig, 1], e + 1, m]
    ELSE IF sig < 2^14 THEN Pack[s, sig * 2^13, e - 13, m]
    ELSE IF sig < 2^23 THEN Pack[s, sig * 2^4, e - 4, m]
    ELSE IF sig < 2^26 THEN Pack[s, 2 * sig, e - 1, m]
    ELSE Signed(s, Encode[sig, e, m])

\* the float of an integer
FromInt(k) == Pack[Sgn(k), IF k < 0 THEN -k ELSE k, 0, Nearest]

\* -a on floats
FNeg(a) == IF IsNaN(a) THEN NaN ELSE Signed(-Sgn(a), Abs(a))

\* the 48-bit product in its words hi, lo (lo < 2^25), rounded
MulJoin[s \in Int, hi \in Nat, lo \in Nat, e \in Int] ==
    Pack[s, (hi + (lo \div 2^24)) * 8 + Jam((lo % 2^24) \div 2^21, (lo % 2^21) # 0),
         e + 21, Nearest]

MulWords[s \in Int, hh \in Nat, mid \in Nat, ll \in Nat, e \in Int] ==
    MulJoin[s, hh + (mid \div 4096), (mid % 4096) * 4096 + ll, e]

MulParts[s \in Int, x \in Nat, ex \in Int, y \in Nat, ey \in Int] ==
    MulWords[s, (x \div 4096) * (y \div 4096),
             ((x \div 4096) * (y % 4096)) + ((x % 4096) * (y \div 4096)),
             (x % 4096) * (y % 4096), ex + ey]

\* a * b on floats
FMul[a \in Int, b \in Int] ==
    IF IsNaN(a) \/ IsNaN(b) THEN NaN
    ELSE IF IsInf(a) \/ IsInf(b)
         THEN (IF IsZero(a) \/ IsZero(b) THEN NaN ELSE Signed(Sgn(a) * Sgn(b), Inf))
    ELSE IF IsZero(a) \/ IsZero(b) THEN Signed(Sgn(a) * Sgn(b), 0)
    ELSE MulParts[Sgn(a) * Sgn(b), SigOf[Abs(a)], ExponentOf[Abs(a)],
                  SigOf[Abs(b)], ExponentOf[Abs(b)]]

\* long division, seven bits of the quotient at a time
DivStep[s \in Int, q \in Nat, r \in Nat, y \in Nat, e \in Int, k \in Nat] ==
    IF k = 0 THEN Pack[s, Jam(q, r # 0), e, Nearest]
    ELSE DivStep[s, q * 128 + ((r * 128) \div y), ((r * 128) % y), y, e - 7, k - 1]

\* a / b on floats
FDiv[a \in Int, b \in Int] ==
    IF IsNaN(a) \/ IsNaN(b) THEN NaN
    ELSE IF IsInf(a) THEN (IF IsInf(b) THEN NaN ELSE Signed(Sgn(a) * Sgn(b), Inf))
    ELSE IF IsInf(b) THEN Signed(Sgn(a) * Sgn(b), 0)
    ELSE IF IsZero(b) THEN (IF IsZero(a) THEN NaN ELSE Signed(Sgn(a) * Sgn(b), Inf))
    ELSE IF IsZero(a) THEN Signed(Sgn(a) * Sgn(b), 0)
    ELSE DivStep[Sgn(a) * Sgn(b), SigOf[Abs(a)] \div SigOf[Abs(b)],
                 (SigOf[Abs(a)] % SigOf[Abs(b)]), SigOf[Abs(b)],
                 ExponentOf[Abs(a)] - ExponentOf[Abs(b)], 4]

\* s * (x * 2^ex + t * y * 2^ey) for x * 2^ex >= y * 2^ey, t = 1 or -1
AddParts[s \in Int, x \in Nat, ex \in Int, t \in Int, y \in Nat, ey \in Int] ==
    Pack[s, x * 64 + t * ShiftRightJam[y * 64, ex - ey], ex - 6, Nearest]

\* a + b on floats
FAdd[a \in Int, b \in Int] ==
    IF IsNaN(a) \/ IsNaN(b) THEN NaN
    ELSE IF IsInf(a) THEN (IF IsInf(b) /\ a # b THEN NaN ELSE a)
    ELSE IF IsInf(b) THEN b
    ELSE IF IsZero(a) THEN (IF IsZero(b) /\ a # b THEN 0 ELSE b)
    ELSE IF IsZero(b) THEN a
    ELSE IF Abs(a) >= Abs(b)
         THEN AddParts[Sgn(a), SigOf[Abs(a)], ExponentOf[Abs(a)], Sgn(a) * Sgn(b),
                       SigOf[Abs(b)], ExponentOf[Abs(b)]]
         ELSE AddParts[Sgn(b), SigOf[Abs(b)], ExponentOf[Abs(b)], Sgn(a) * Sgn(b),
                       SigOf[Abs(a)], ExponentOf[Abs(a)]]

\* a - b on floats
FSub[a \in Int, b \in Int] == FAdd[a, FNeg(b)]

\* the square root digit by digit: x holds 13 pairs of bits, 14 pairs of
\* zeros follow
SqrtStep[x \in Nat, rem \in Nat, root \in Nat, j \in Nat, h \in Int] ==
    IF j = 27 THEN Pack[1, Jam(root, rem # 0), h, Nearest]
    ELSE IF 4 * rem + (IF j < 13 THEN (x \div 4^(12 - j)) % 4 ELSE 0) >= 4 * root + 1
         THEN SqrtStep[x, 4 * rem + (IF j < 13 THEN (x \div 4^(12 - j)) % 4 ELSE 0)
                          - (4 * root + 1), 2 * root + 1, j + 1, h]
         ELSE SqrtStep[x, 4 * rem + (IF j < 13 THEN (x \div 4^(12 - j)) % 4 ELSE 0),
                       2 * root, j + 1, h]

\* torch.sqrt
FSqrt[a \in Int] ==
    IF IsZero(a) THEN a
    ELSE IF IsNaN(a) \/ a < 0 THEN NaN
    ELSE IF a = Inf THEN a
    ELSE SqrtStep[SigOf[a] * (1 + (ExponentOf[a] % 2)), 0, 0, 0,
                  ((ExponentOf[a] - (ExponentOf[a] % 2)) \div 2) - 14]

\* the integer nearest to the finite float a, |a| < 2^23
IntOf[a \in Int] ==
    IF IsZero(a) \/ ExponentOf[Abs(a)] < -24 THEN 0
    ELSE IF ExponentOf[Abs(a)] >= 0 THEN Sgn(a) * SigOf[Abs(a)] * 2^ExponentOf[Abs(a)]
    ELSE Sgn(a) * ((SigOf[Abs(a)] + 2^(-ExponentOf[Abs(a)] - 1)) \div 2^(-ExponentOf[Abs(a)]))

\* ------------------------------------------------------------------------
\* Wide numbers, in which exp, log and erf are summed before they are rounded
\* to a float: six limbs <<l1, ..., l6>> that stand for
\* l1 + l2 / 2^14 + ... + l6 / 2^70, l2 .. l6 in 0 .. 2^14 - 1
\* ------------------------------------------------------------------------

Limb == 2^14

WZero == <<0, 0, 0, 0, 0, 0>>

WOne == <<1, 0, 0, 0, 0, 0>>

\* ln 2
Ln2W == <<0, 11356, 8575, 8007, 3961, 10994>>

\* 1 / ln 2
InvLn2W == <<1, 7253, 1893, 2784, 12257, 7647>>

\* 2 / sqrt(pi)
TwoOverSqrtPiW == <<1, 2103, 5968, 4262, 14033, 1720>>

\* the limbs of raw from limb k up, each brought into 0 .. 2^14 - 1 by
\* carrying c and what it leaves into the limb above; the first limb keeps
\* what reaches it
Carried[raw \in Seq(Int), k \in Nat, c \in Int] ==
    IF k = 1 THEN <<raw[1] + c>>
    ELSE Append(Carried[raw, k - 1, (raw[k] + c) \div Limb], (raw[k] + c) % Limb)

\* a + b
WAdd[a \in Seq(Int), b \in Seq(Int)] ==
    Carried[<<a[1] + b[1], a[2] + b[2], a[3] + b[3], a[4] + b[4], a[5] + b[5],
              a[6] + b[6]>>, 6, 0]

\* a - b; its first limb is below zero when b is above a
WSub[a \in Seq(Int), b \in Seq(Int)] ==
    Carried[<<a[1] - b[1], a[2] - b[2], a[3] - b[3], a[4] - b[4], a[5] - b[5],
              a[6] - b[6]>>, 6, 0]

\* a * m for an integer m in 0 .. 2^16
WScale[a \in Seq(Int), m \in Nat] ==
    Carried[<<a[1] * m, a[2] * m, a[3] * m, a[4] * m, a[5] * m, a[6] * m>>, 6, 0]

\* a * b cut at 2^-70, first limbs below 2^14
WMul[a \in Seq(Int), b \in Seq(Int)] ==
    Carried[<<a[1] * b[1],
              a[1] * b[2] + a[2] * b[1],
              a[1] * b[3] + a[2] * b[2] + a[3] * b[1],
              a[1] * b[4] + a[2] * b[3] + a[3] * b[2] + a[4] * b[1],
              a[1] * b[5] + a[2] * b[4] + a[3] * b[3] + a[4] * b[2] + a[5] * b[1],
              a[1] * b[6] + a[2] * b[5] + a[3] * b[4] + a[4] * b[3] + a[5] * b[2]
                  + a[6] * b[1]>>, 6, 0]

\* the limbs of a / d from limb k down, r the remainder of the limbs above
Quotient[a \in Seq(Int), d \in Nat, k \in Nat, r \in Nat] ==
    IF k > 6 THEN <<>>
    ELSE <<(r * Limb + a[k]) \div d>> \o Quotient[a, d, k + 1, (r * Limb + a[k]) % d]

\* a / d for an integer d in 1 .. 2^16, cut at 2^-70
WDiv[a \in Seq(Int), d \in Nat] == Quotient[a, d, 1, 0]

\* limb j of a, zero outside it
LimbAt(a, j) == IF j < 1 \/ j > 6 THEN 0 ELSE a[j]

\* a / 2^t cut at 2^-70, first limb of a below 2^14
WShr[a \in Seq(Int), t \in Nat] ==
    Entries([k \in 1..6 |->
        (LimbAt(a, k - (t \div 14) - 1) % 2^(t % 14)) * 2^(14 - (t % 14))
        + (LimbAt(a, k - (t \div 14)) \div 2^(t % 14))])

\* sig * 2^e for sig < 2^24 and e <= -14
ToWide[sig \in Nat, e \in Int] ==
    WShr[<<sig \div Limb, sig % Limb, 0, 0, 0, 0>>, -e - 14]

\* s * (hi + next / 2^14 + ...) * 2^e rounded to a float in the way m,
\* hi >= 2^14, rest telling whether anything stands below next
Widen[s \in Int, hi \in Nat, next \in Nat, rest \in BOOLEAN, e \in Int, m \in Int] ==
    IF hi >= 2^26 THEN Pack[s, Jam(hi, next # 0 \/ rest), e, m]
    ELSE IF hi < 2^19
         THEN Widen[s, hi * 2^7 + (next \div 2^7), (next % 2^7) * 2^7, rest, e - 7, m]
         ELSE Widen[s, hi * 2 + (next \div 2^13), (next % 2^13) * 2, rest, e - 1, m]

\* the same from limb j on, the limbs above it being zero
WRoundFrom[s \in Int, a \in Seq(Int), e \in Int, j \in Nat, m \in Int] ==
    IF j > 6 THEN 0
    ELSE IF a[j] = 0 THEN WRoundFrom[s, a, e, j + 1, m]
    ELSE Widen[s, a[j] * Limb + LimbAt(a, j + 1), LimbAt(a, j + 2),
               \E i \in (j + 3)..6 : a[i] # 0, e - 14 * j, m]

\* s * a * 2^e rounded to a float in the way m
WRound[s \in Int, a \in Seq(Int), e \in Int, m \in Int] == WRoundFrom[s, a, e, 1, m]

\* the terms of the series of exp that are summed
ExpTerms == 20

\* 1 + r / (n + 1) * (1 + r / (n + 2) * (...)) from p, the part from n + 1 on
ExpSeries[r \in Seq(Int), n \in Nat, p \in Seq(Int)] ==
    IF n = 0 THEN p ELSE ExpSeries[r, n - 1, WAdd[WOne, WDiv[WMul[r, p], n]]]

\* e^r for r in [0, ln 2]
WExp[r \in Seq(Int)] == ExpSeries[r, ExpTerms, WOne]

\* <<k, r>> with y = k ln 2 + r and r in [0, ln 2), from r0 = y - k ln 2 and
\* r1 = r0 - ln 2 for a k that is right or one too small
ReduceStep[k \in Int, r0 \in Seq(Int), r1 \in Seq(Int)] ==
    IF r1[1] >= 0 THEN <<k + 1, r1>> ELSE <<k, r0>>

ReduceAt[k \in Int, r0 \in Seq(Int)] == ReduceStep[k, r0, WSub[r0, Ln2W]]

Reduce[y \in Seq(Int), k \in Int] == ReduceAt[k, WSub[y, WScale[Ln2W, k]]]

\* <<k, r>> with y = k ln 2 + r and r in [0, ln 2)
Reduction[y \in Seq(Int)] == Reduce[y, WMul[y, InvLn2W][1]]

\* e^y = 2^k e^r and e^-y = 2^-(k + 1) e^(ln 2 - r) for y = k ln 2 + r
ExpOfReduced[s \in Int, k \in Int, r \in Seq(Int), m \in Int] ==
    IF s = 1 THEN WRound[1, WExp[r], k, m]
    ELSE WRound[1, WExp[WSub[Ln2W, r]], -(k + 1), m]

\* e^a rounded in the way m
ExpRounded[a \in Int, m \in Int] ==
    IF IsNaN(a) THEN NaN
    ELSE IF IsZero(a) THEN One
    ELSE IF a > 1118961664 THEN Inf          \* a > 89.0
    ELSE IF a < -1120927744 THEN 0           \* a < -104.0
    ELSE Bind(Reduction[ToWide[SigOf[Abs(a)], ExponentOf[Abs(a)]]],
              LAMBDA kr : ExpOfReduced[Sgn(a), kr[1], kr[2], m])

\* the terms of the series of log that are summed after the first
LogTerms == 14

\* 1 / (2 k + 1) + w / (2 k + 3) + w^2 / (2 k + 5) + ... from p, the part from
\* 1 / (2 k + 3) on
LogSeries[w \in Seq(Int), k \in Int, p \in Seq(Int)] ==
    IF k < 0 THEN p
    ELSE LogSeries[w, k - 1, WAdd[WDiv[WOne, 2 * k + 1], WMul[w, p]]]

\* the next limb of a quotient: q with the 14 bits of r / d appended, and
\* what is left of r, five, five and four bits at a time (d < 2^25)
LimbOf[q \in Nat, r \in Nat, d \in Nat, j \in Nat] ==
    IF j = 0 THEN <<q, r>>
    ELSE IF j = 1 THEN LimbOf[q * 16 + ((r * 16) \div d), (r * 16) % d, d, 0]
    ELSE LimbOf[q * 32 + ((r * 32) \div d), (r * 32) % d, d, j - 1]

\* the limbs of r / d below the point, from limb k on (r < d < 2^25)
Fraction[r \in Nat, d \in Nat, k \in Nat] ==
    IF k > 6 THEN <<>>
    ELSE Bind(LimbOf[0, r, d, 3], LAMBDA t : <<t[1]>> \o Fraction[t[2], d, k + 1])

\* ln f * 2^E from L = z (1 + z^2 / 3 + z^4 / 5 + ...) 2^s, where
\* z = |f - 1| / (f + 1), sn is the sign of f - 1 and ln f = sn 2 z (1 + ...)
LogJoin[sn \in Int, E \in Int, s \in Nat, L \in Seq(Int), m \in Int] ==
    IF E = 0 THEN WRound[sn, L, 1 - s, m]
    ELSE IF sn = Sgn(E)
         THEN WRound[Sgn(E), WAdd[WScale[Ln2W, Sgn(E) * E], WShr[L, s - 1]], 0, m]
         ELSE WRound[Sgn(E), WSub[WScale[Ln2W, Sgn(E) * E], WShr[L, s - 1]], 0, m]

\* the same from zs = z 2^s
LogFrom[sn \in Int, E \in Int, s \in Nat, zs \in Seq(Int), m \in Int] ==
    LogJoin[sn, E, s,
            WMul[zs, LogSeries[WShr[WMul[zs, zs], 2 * s], LogTerms - 1,
                               WDiv[WOne, 2 * LogTerms + 1]]], m]

\* the same from n = |f - 1| 2^s and d = f + 1 in units of the last place of
\* f, n brought into [2^23, 2^24)
LogNorm[sn \in Int, n \in Nat, d \in Nat, E \in Int, s \in Nat, m \in Int] ==
    IF n < 2^23 THEN LogNorm[sn, 2 * n, d, E, s + 1, m]
    ELSE LogFrom[sn, E, s, <<0>> \o Fraction[n, d, 2], m]

\* ln(f * 2^E) for f in (sqrt(1/2), sqrt(2)], n = f - 1 and d = f + 1 in
\* units of the last place of f
LogOf[n \in Int, d \in Nat, E \in Int, m \in Int] ==
    IF n = 0 THEN WRound[Sgn(E), WScale[Ln2W, Sgn(E) * E], 0, m]
    ELSE LogNorm[Sgn(n), Sgn(n) * n, d, E, 0, m]

\* ln a rounded in the way m
LogRounded[a \in Int, m \in Int] ==
    IF IsZero(a) THEN -Inf
    ELSE IF IsNaN(a) \/ a < 0 THEN NaN
    ELSE IF a = Inf THEN Inf
    ELSE IF SigOf[a] > 11863283               \* the significand of sqrt(2)
         THEN LogOf[SigOf[a] - 2^24, SigOf[a] + 2^24, ExponentOf[a] + 24, m]
         ELSE LogOf[SigOf[a] - 2^23, SigOf[a] + 2^23, ExponentOf[a] + 23, m]

\* c (1 + w / (2 n + 1) (1 + w / (2 n + 3) (...))) from h, the part from
\* 2 n + 1 on
ErfSeries[w \in Seq(Int), c \in Seq(Int), n \in Nat, h \in Seq(Int)] ==
    IF n = 0 THEN h ELSE ErfSeries[w, c, n - 1, WAdd[c, WDiv[WMul[w, h], 2 * n + 1]]]

\* erf(x) / x = 2 / sqrt(pi) * e^(-x^2) * (1 + 2 x^2 / 3 + (2 x^2)^2 / 15 + ...)
\* with e^(-x^2) = 2^-(k + 1) e^(ln 2 - r) for x^2 = k ln 2 + r
ErfOverX[w \in Seq(Int), k \in Int, r \in Seq(Int)] ==
    WMul[WMul[TwoOverSqrtPiW, WExp[WSub[Ln2W, r]]],
         ErfSeries[w, WShr[WOne, k + 1], 3 * w[1] + 22, WShr[WOne, k + 1]]]

\* the same from x2 = x^2
ErfFrom[x2 \in Seq(Int)] ==
    Bind(Reduction[x2], LAMBDA kr : ErfOverX[WScale[x2, 2], kr[1], kr[2]])

\* erf of the float sig * 2^e below 4
ErfParts[s \in Int, sig \in Nat, e \in Int, x \in Seq(Int), m \in Int] ==
    WRound[s, WMul[ToWide[sig, -23], ErfFrom[WMul[x, x]]], e + 23, m]

\* erf z rounded in the way m
ErfRounded[z \in Int, m \in Int] ==
    IF IsNaN(z) THEN NaN
    ELSE IF IsZero(z) THEN z
    ELSE IF Abs(z) >= 1082130432 THEN Signed(Sgn(z), One)     \* |z| >= 4.0
    ELSE ErfParts[Sgn(z), SigOf[Abs(z)], ExponentOf[Abs(z)],
                  ToWide[SigOf[Abs(z)], ExponentOf[Abs(z)]], m]

\* ------------------------------------------------------------------------
\* The library
\* ------------------------------------------------------------------------

\* what exp, log and erf have returned, a function of the calls made: the
\* call <<"exp", a>> is torch.exp of the float a, and so on.  The library is
\* accurate to less than one unit in the last place and is not correctly
\* rounded: which of the two floats around the exact value it returns is
\* its own matter, argument by argument, and is the same each time
VARIABLE kernel

\* no call made
NoCalls == [c \in {} |-> 0]

\* the floats the library may return to the call c
Outcomes(c) ==
    IF c[1] = "exp" THEN {ExpRounded[c[2], TowardZero], ExpRounded[c[2], AwayFromZero]}
    ELSE IF c[1] = "log"
         THEN {LogRounded[c[2], TowardZero], LogRounded[c[2], AwayFromZero]}
         ELSE {ErfRounded[c[2], TowardZero], ErfRounded[c[2], AwayFromZero]}

\* k with v returned to the call c
With(k, c, v) == [d \in DOMAIN k \cup {c} |-> IF d = c THEN v ELSE k[d]]

\* k with each call of the pairs O = {<<c, the floats the library may return
\* to c>>} answered
RECURSIVE Answered(_, _)
Answered(k, O) ==
    IF O = {} THEN {k}
    ELSE Bind(CHOOSE o \in O : TRUE, LAMBDA o :
            UNION {Answered(With(k, o[1], v), O \ {o}) : v \in o[2]})

\* what the library may have returned once the calls of S are made after
\* those of k: a call made before returns what it returned then
Builds(k, S) ==
    Bind({<<c, Outcomes(c)>> : c \in S \ DOMAIN k}, LAMBDA O : Answered(k, O))

\* torch.exp
FExp[a \in Int] == kernel[<<"exp", a>>]

\* torch.log
FLog[a \in Int] == kernel[<<"log", a>>]

\* torch.erf
FErf[z \in Int] == kernel[<<"erf", z>>]

\* math.sqrt(2)
Sqrt2 == 1068827891

\* the argument of erf in torch.distributions.Normal(0, 1).cdf(x):
\* (value - loc) * scale.reciprocal() / math.sqrt(2) with loc = 0.0, scale = 1.0
ErfArg[x \in Int] == FDiv[FMul[FSub[x, 0], FDiv[One, One]], Sqrt2]

\* the value of torch.distributions.Normal(0, 1).cdf:
\* 0.5 * (1 + erf((value - loc) * scale.reciprocal() / math.sqrt(2)))
NormCdf[x \in Int] == FMul[Half, FAdd[One, FErf[ErfArg[x]]]]
\* ------------------------------------------------------------------------
\* Tensors: a vector is a sequence of floats, a matrix a sequence of rows
\* ------------------------------------------------------------------------

\* the sum of the floats of s: they are added to 0.0 one after the other,
\* from the first to the last
FSum[s \in Seq(Int)] ==
    IF Len(s) = 0 THEN 0
    ELSE FAdd[FSum[SubSeq(s, 1, Len(s) - 1)], s[Len(s)]]

NRows(m) == Len(m)

NCols(m) == IF m = <<>> THEN 0 ELSE Len(m[1])

\* Tensor.t() of a matrix
Transpose(m) ==
    Entries([j \in 1..NCols(m) |-> Entries([k \in 1..NRows(m) |-> m[k][j]])])

\* column k of a matrix, as a vector
Col(m, k) == Entries([j \in 1..NRows(m) |-> m[j][k]])

\* the outcome of a tensor operation: the value it returns, or the error it
\* raises
Returns(v) == [raised |-> "", value |-> v]

Raises(e) == [raised |-> e, value |-> <<>>]

\* whether m has as many columns as rows
IsSquare(m) == Len(m) > 0 /\ \A r \in 1..Len(m) : Len(m[r]) = Len(m)

\* the row, from row k down, that holds the entry of largest magnitude of
\* column k; the first of them when several do
PivotRow(A, k) ==
    CHOOSE r \in k..Len(A) :
        \A q \in k..Len(A) :
            \/ Abs(A[r][k]) > Abs(A[q][k])
            \/ Abs(A[r][k]) = Abs(A[q][k]) /\ r <= q

\* s with its elements a and b exchanged
Swapped(s, a, b) ==
    Entries([r \in 1..Len(s) |-> IF r = a THEN s[b] ELSE IF r = b THEN s[a] ELSE s[r]])

\* the multiplier of a row under the pivot p: the entry times 1 / p, or the
\* entry over p when p is too small for its reciprocal; under a pivot that is
\* zero the column is not scaled and the entry stands as it is
Multiplier[a \in Int, p \in Int] ==
    IF IsZero(p) THEN a
    ELSE IF Abs(p) >= 2^23 THEN FMul[a, FDiv[One, p]] ELSE FDiv[a, p]

\* row with l times the pivot row taken from it right of column k, and l kept
\* in column k
ReducedRow(row, prow, k, l) ==
    Entries([j \in 1..Len(row) |->
        IF j < k THEN row[j]
        ELSE IF j = k THEN l
        ELSE FSub[row[j], FMul[l, prow[j]]]])

\* one step of the elimination: the rows under row k reduced by row k
Eliminated(A, k) ==
    Entries([r \in 1..Len(A) |->
        IF r <= k THEN A[r]
        ELSE Bind(Multiplier[A[r][k], A[k][k]], LAMBDA l : ReducedRow(A[r], A[k], k, l))])

\* the factorisation P A = L U with partial pivoting, from column k on: lu
\* holds U on and above its diagonal and the multipliers of L below it, perm
\* the row of A that each row of lu came from, swaps the number of exchanges
\* and info the first column whose pivot was zero (0 when there is none); the
\* rows under a zero pivot are updated like the others
RECURSIVE LUFrom(_, _, _, _, _)
LUFrom(A, perm, swaps, info, k) ==
    IF k > Len(A) THEN [lu |-> A, perm |-> perm, swaps |-> swaps, info |-> info]
    ELSE Bind(PivotRow(A, k), LAMBDA p :
         Bind(Swapped(A, k, p), LAMBDA B :
            IF IsZero(B[k][k])
            THEN LUFrom(Eliminated(B, k), perm, swaps, IF info = 0 THEN k ELSE info,
                        k + 1)
            ELSE LUFrom(Eliminated(B, k), Swapped(perm, k, p),
                        swaps + (IF p = k THEN 0 ELSE 1), info, k + 1)))

\* the factorisation of a square matrix
LUFactor(m) == LUFrom(m, Entries([r \in 1..Len(m) |-> r]), 0, 0, 1)

\* the factorisation that torch.linalg.inv and torch.logdet make of a matrix
\* held row after row, as a tensor made from a list is: that of its
\* transpose, which has the same floats in the order the routine wants
LUOfTensor(m) == LUFactor(Transpose(m))

\* temp less lu[k][r] * b[k] for k from k up to hi, one after the other
RECURSIVE TakenFrom(_, _, _, _, _, _)
TakenFrom(temp, lu, b, r, k, hi) ==
    IF k > hi THEN temp
    ELSE Bind(FSub[temp, FMul[lu[k][r], b[k]]], LAMBDA t :
            TakenFrom(t, lu, b, r, k + 1, hi))

\* b with x in place of its entry r
Put(b, r, x) == Entries([q \in 1..Len(b) |-> IF q = r THEN x ELSE b[q]])

\* U^T z = b solved in place of b, from row r on: U stands on and above the
\* diagonal of lu
RECURSIVE UpperTransposedFrom(_, _, _)
UpperTransposedFrom(lu, b, r) ==
    IF r > Len(b) THEN b
    ELSE Bind(FDiv[TakenFrom(b[r], lu, b, r, 1, r - 1), lu[r][r]], LAMBDA x :
            UpperTransposedFrom(lu, Put(b, r, x), r + 1))

\* L^T w = b solved in place of b, from row r down: L stands below the
\* diagonal of lu and has a unit diagonal
RECURSIVE LowerTransposedFrom(_, _, _)
LowerTransposedFrom(lu, b, r) ==
    IF r = 0 THEN b
    ELSE Bind(TakenFrom(b[r], lu, b, r, r + 1, Len(b)), LAMBDA x :
            LowerTransposedFrom(lu, Put(b, r, x), r - 1))

\* w with the exchanges of the rows undone: entry r goes where row r of lu
\* came from
Unpivoted(perm, w) ==
    Entries([q \in 1..Len(w) |-> w[CHOOSE r \in 1..Len(w) : perm[r] = q]])

\* column c of the inverse of A: the solution of A x = e_c from the
\* factorisation P A^T = L U, that is of U^T L^T P x = e_c
InverseColumn(f, c) ==
    Unpivoted(f.perm,
        LowerTransposedFrom(f.lu,
            UpperTransposedFrom(f.lu,
                Entries([r \in 1..Len(f.perm) |-> IF r = c THEN One ELSE 0]), 1),
            Len(f.perm)))

\* the inverse from the factorisation
InverseFrom(f) ==
    Transpose(Entries([c \in 1..Len(f.perm) |-> InverseColumn(f, c)]))

\* torch.linalg.inv: a matrix that is not square raises, and so does one whose
\* factorisation meets a pivot that is zero
LinalgInv(m) ==
    IF ~IsSquare(m) THEN Raises("DimensionMismatchError")
    ELSE Bind(LUOfTensor(m), LAMBDA f :
            IF f.info # 0 THEN Raises("SingularMatrixError")
            ELSE Returns(InverseFrom(f)))

\* the sign of the determinant from the factorisation: 1, -1 or 0
DetSign(f) ==
    IF \E r \in 1..Len(f.lu) : IsZero(f.lu[r][r]) \/ IsNaN(f.lu[r][r]) THEN 0
    ELSE IF (f.swaps + Cardinality({r \in 1..Len(f.lu) : f.lu[r][r] < 0})) % 2 = 0
         THEN 1 ELSE -1

\* the magnitudes of the pivots
AbsPivots(f) == Entries([r \in 1..Len(f.lu) |-> Abs(f.lu[r][r])])

\* the sum of the logarithms of the magnitudes of the pivots
LogAbsDet(f) ==
    Bind(AbsPivots(f), LAMBDA d : FSum[Entries([r \in 1..Len(d) |-> FLog[d[r]]])])

\* torch.logdet: nan when the determinant is negative
LogDetOf(f) == IF DetSign(f) = -1 THEN NaN ELSE LogAbsDet(f)

\* torch.logdet of the matrix m
LogDet(m) == Bind(LUOfTensor(m), LAMBDA f : LogDetOf(f))

\* torch.einsum lets the dimensions that carry one subscript differ only
\* where one of them has size 1
Broadcastable(a, b) == a = b \/ a = 1 \/ b = 1

\* the floats of a matrix, row after row
Flat(P) ==
    Entries([q \in 1..(NRows(P) * NCols(P)) |->
        P[((q - 1) \div NCols(P)) + 1][((q - 1) % NCols(P)) + 1]])

\* torch.einsum sums an operand alone, before it is multiplied, over a
\* summed subscript for which the operand it meets has size 1.  This is the
\* second operand P (subscripts ij) so summed: over i when the first operand
\* has ulen = 1 entry, over j when the third has vlen = 1
SummedAlone(P, ulen, vlen) ==
    IF ulen = 1 /\ NRows(P) # 1
    THEN (IF vlen = 1 /\ NCols(P) # 1
          THEN <<<<FSum[Flat(P)]>>>>
          ELSE <<Entries([j \in 1..NCols(P) |-> FSum[Col(P, j)]])>>)
    ELSE IF vlen = 1 /\ NCols(P) # 1
         THEN Entries([i \in 1..NRows(P) |-> <<FSum[P[i]]>>])
         ELSE P

\* the same for a vector operand u that meets an operand of size n
SummedAgainst(u, n) == IF n = 1 /\ Len(u) # 1 THEN <<FSum[u]>> ELSE u

\* the products of two operands summed over a subscript on which both have
\* the size of products: the sum of the products where that size is not 1,
\* and the product, with nothing added, where it is
SumProduct(products) ==
    IF Len(products) = 1 THEN products[1] ELSE FSum[products]

\* the vector sum_i u[i] * P[i][j] of the first two operands of an einsum
\* call whose third operand has vlen entries
RowTimes(u, P, vlen) ==
    Bind(SummedAlone(P, Len(u), vlen), LAMBDA Q :
        Bind(SummedAgainst(u, NRows(P)), LAMBDA w :
            Entries([j \in 1..NCols(Q) |->
                SumProduct(Entries([i \in 1..Len(w) |-> FMul[w[i], Q[i][j]]]))])))

\* the sum_j t[j] * v[j] that contracts it with the third operand
DotWith(t, v) ==
    Bind(SummedAgainst(v, Len(t)), LAMBDA w :
        SumProduct(Entries([j \in 1..Len(t) |-> FMul[t[j], w[j]]])))

\* the contraction sum_i sum_j u[i] * P[i][j] * v[j] of the three einsum
\* calls, for one position of the batch, operand by operand from the left
Contract(u, P, v) == DotWith(RowTimes(u, P, Len(v)), v)

\* whether einsum accepts operands u (subscript i), P (ij), v (j)
ContractShapesOk(u, P, v) ==
    /\ Broadcastable(Len(u), NRows(P))
    /\ Broadcastable(NCols(P), Len(v))

\* ------------------------------------------------------------------------
\* _M_value(alpha, n_dim)
\* ------------------------------------------------------------------------

\* torch.pi
Pi == 1078530011

\* torch.tensor(2.0) * torch.pi
TwoPi == FMul[Two, Pi]

\* torch.sqrt(torch.tensor(2.0) * torch.pi)
SqrtTwoPi == FSqrt[TwoPi]

\* whether normal_dist.cdf(alpha) raises: the distribution checks that its
\* argument lies in its support, the real numbers, which nan does not
CdfRaises(alpha) == \E k \in 1..Len(alpha) : IsNaN(alpha[k])

\* the calls of the library in norm_cdf and exp_alpha
CallsOfFirstPair(alpha) ==
    {<<"erf", ErfArg[alpha[k]]>> : k \in 1..Len(alpha)}
    \cup {<<"exp", FMul[FNeg(Half), FMul[alpha[k], alpha[k]]]>> : k \in 1..Len(alpha)}

\* norm_cdf = normal_dist.cdf(alpha)
NormCdfOf(alpha) == Entries([k \in 1..Len(alpha) |-> NormCdf[alpha[k]]])

\* exp_alpha = torch.exp(-0.5 * alpha**2)
ExpAlphaOf(alpha) ==
    Entries([k \in 1..Len(alpha) |->
        FExp[FMul[FNeg(Half), FMul[alpha[k], alpha[k]]]]])

\* M1 = torch.sqrt(torch.tensor(2.0) * torch.pi) * norm_cdf
M1Of(norm_cdf) ==
    Entries([k \in 1..Len(norm_cdf) |-> FMul[SqrtTwoPi, norm_cdf[k]]])

\* M2 = exp_alpha + alpha * M1
M2Of(exp_alpha, alpha, M1) ==
    Entries([k \in 1..Len(alpha) |-> FAdd[exp_alpha[k], FMul[alpha[k], M1[k]]]])

\* M_vals = [M1, M2]
FirstPair(alpha) ==
    Bind(M1Of(NormCdfOf(alpha)), LAMBDA M1 :
        <<M1, M2Of(ExpAlphaOf(alpha), alpha, M1)>>)

\* M_next = (i - 2) * M_vals[0] + alpha * M_vals[1]
MNext(Mv, i, alpha) ==
    Entries([k \in 1..Len(alpha) |->
        FAdd[FMul[FromInt(i - 2), Mv[1][k]], FMul[alpha[k], Mv[2][k]]]])

\* the same with M_vals[0] = M_vals[1] done before M_next is computed
LoopBodyShiftFirst(Mv, i, alpha) == <<Mv[2], MNext(<<Mv[2], Mv[2]>>, i, alpha)>>

\* one pass of the loop body: M_next is computed from the pair as it stands,
\* then the pair is shifted
LoopBody(Mv, i, alpha) == <<Mv[2], MNext(Mv, i, alpha)>>

\* for i in range(3, n_dim + 1), from index i on
RECURSIVE Loop(_, _, _, _)
Loop(Mv, i, n_dim, alpha) ==
    IF i > n_dim THEN Mv
    ELSE Bind(LoopBody(Mv, i, alpha), LAMBDA next : Loop(next, i + 1, n_dim, alpha))

\* the first element of the pair
ReturnedFirst(Mv) == Mv[1]

\* the element of M_vals the function returns: M_vals[1]
Returned(Mv) == Mv[2]

\* _M_value as a function of its arguments
M_value(alpha, n_dim) ==
    IF CdfRaises(alpha) THEN Raises("ValueError")
    ELSE Bind(FirstPair(alpha), LAMBDA pair :
             Returns(Returned(Loop(pair, 3, n_dim, alpha))))

\* ------------------------------------------------------------------------
\* log_pdf(mu, covariance, y) and pdf(mu, covariance, y)
\* ------------------------------------------------------------------------

\* n_dim = torch.tensor(mu.size(0))
NDimOf(mu) == Len(mu)

\* whether the three einsum calls accept mu, precision and y
EinsumShapesOk(mu, precision, y) ==
    /\ ContractShapesOk(mu, precision, mu)
    /\ ContractShapesOk(mu, precision, Col(Transpose(y), 1))
    /\ ContractShapesOk(y[1], precision, Col(Transpose(y), 1))

\* q1 = torch.einsum("i,ij,j->", mu, precision, mu)
Q1Of(mu, precision) == Contract(mu, precision, mu)

\* q2 = torch.einsum("i,ij,j...->...", mu, precision, y.t())
Q2Of(mu, precision, y) ==
    Bind(Transpose(y), LAMBDA yt :
        Bind(RowTimes(mu, precision, NRows(yt)), LAMBDA t :
            Entries([k \in 1..NCols(yt) |-> DotWith(t, Col(yt, k))])))

\* q3 = torch.einsum("...i,ij,j...->...", y, precision, y.t())
Q3Of(precision, y) ==
    Bind(Transpose(y), LAMBDA yt :
        Entries([k \in 1..NRows(y) |-> Contract(y[k], precision, Col(yt, k))]))

\* alpha = q2 / torch.sqrt(q3)
AlphaOf(q2, q3) == Entries([k \in 1..Len(q2) |-> FDiv[q2[k], FSqrt[q3[k]]]])

\* n_dim / 2.0
HalfOf(n_dim) == FDiv[FromInt(n_dim), Two]

\* term1 = -(n_dim / 2.0) * torch.log(torch.tensor(2.0) * torch.pi)
Term1(n_dim) == FMul[FNeg(HalfOf(n_dim)), FLog[TwoPi]]

\* term2 = -0.5 * torch.logdet(covariance)
Term2(covariance) == FMul[FNeg(Half), LogDet(covariance)]

\* the same from the factorisation f that torch.logdet makes of covariance
Term2Of(f) == FMul[FNeg(Half), LogDetOf(f)]

\* term3 = -(n_dim / 2.0) * torch.log(q3)
Term3(n_dim, q3) ==
    Entries([k \in 1..Len(q3) |-> FMul[FNeg(HalfOf(n_dim)), FLog[q3[k]]]])

\* term4 = 0.5 * (alpha**2 - q1)
Term4(alpha, q1) ==
    Entries([k \in 1..Len(alpha) |->
        FMul[Half, FSub[FMul[alpha[k], alpha[k]], q1]]])

\* term5 = torch.log(M)
Term5(M) == Entries([k \in 1..Len(M) |-> FLog[M[k]]])

\* lpdf = term1 + term2 + term3 + term4 + term5
SumTerms(t1, t2, t3, t4, t5) ==
    Bind(<<FAdd[t1, t2], t3, t4, t5>>, LAMBDA t :
        Entries([k \in 1..Len(t[4]) |->
            FAdd[FAdd[FAdd[t[1], t[2][k]], t[3][k]], t[4][k]]]))

\* the calls of the library in term1, term2 (torch.logdet takes the logarithm
\* of every pivot, whatever the sign of the determinant), term3 and term5
CallsOfTerms(covariance, q3, M) ==
    {<<"log", TwoPi>>}
    \cup Bind(AbsPivots(LUOfTensor(covariance)), LAMBDA d :
            {<<"log", d[r]>> : r \in 1..Len(d)})
    \cup {<<"log", q3[k]>> : k \in 1..Len(q3)}
    \cup {<<"log", M[k]>> : k \in 1..Len(M)}

\* the terms and their sum, from the quantities computed before them
LpdfGiven(n_dim, f, q1, q3, alpha, M) ==
    SumTerms(Term1(n_dim), Term2Of(f), Term3(n_dim, q3), Term4(alpha, q1), Term5(M))

\* the same from covariance
LpdfOf(n_dim, covariance, q1, q3, alpha, M) ==
    Bind(LUOfTensor(covariance), LAMBDA f : LpdfGiven(n_dim, f, q1, q3, alpha, M))

\* log_pdf from the einsum calls on, given the precision matrix
LpdfFrom(mu, covariance, y, precision) ==
    Bind(Q3Of(precision, y), LAMBDA q3 :
        Bind(AlphaOf(Q2Of(mu, precision, y), q3), LAMBDA alpha :
            Bind(M_value(alpha, NDimOf(mu)), LAMBDA M :
                IF M.raised # "" THEN M
                ELSE Returns(LpdfOf(NDimOf(mu), covariance, Q1Of(mu, precision), q3,
                                    alpha, M.value)))))

\* log_pdf as a function of its arguments
log_pdf(mu, covariance, y) ==
    Bind(LinalgInv(covariance), LAMBDA inv :
        IF inv.raised # "" THEN Raises(inv.raised)
        ELSE IF ~EinsumShapesOk(mu, inv.value, y)
             THEN Raises("DimensionMismatchError")
             ELSE LpdfFrom(mu, covariance, y, inv.value))

\* lpdf returned as it is
ExpOfSkipped(lpdf) == lpdf

\* the calls of the library in torch.exp(lpdf)
CallsOfExp(lpdf) == {<<"exp", lpdf[k]>> : k \in 1..Len(lpdf)}

\* pdf = torch.exp(lpdf)
ExpOf(lpdf) == Entries([k \in 1..Len(lpdf) |-> FExp[lpdf[k]]])

\* pdf as a function of its arguments
pdf(mu, covariance, y) ==
    Bind(log_pdf(mu, covariance, y), LAMBDA l :
        IF l.raised # "" THEN l ELSE Returns(ExpOf(l.value)))

\* ------------------------------------------------------------------------
\* The arguments the callers pass
\* ------------------------------------------------------------------------

\* the largest dimension of the Gaussian in the calls of log_pdf and pdf
MaxN == 3

\* the largest number of points (rows of y) in one call
MaxPoints == 2

\* the largest n_dim in the direct calls of _M_value
MaxDim == 5

\* the direct calls of _M_value take alpha on the grid -MaxAlpha..MaxAlpha
MaxAlpha == 5

ZeroVector(n) == [k \in 1..n |-> 0]

EndsVector(n) == [k \in 1..n |-> IF k \in {1, n} THEN One ELSE 0]

UnitVector(n, a) == [k \in 1..n |-> IF k = a THEN One ELSE 0]

Negated(v) == [k \in 1..Len(v) |-> FNeg(v[k])]

Identity(n) == [r \in 1..n |-> UnitVector(n, r)]

\* the matrix of floats of a matrix of integers
FloatsOf(m) ==
    Entries([r \in 1..Len(m) |-> Entries([c \in 1..Len(m[r]) |-> FromInt(m[r][c])])])

\* a covariance with correlated components
Correlated == FloatsOf(<<<<1, 1>>, <<1, 3>>>>)

\* a covariance that has no inverse: every entry zero
AllZeros == FloatsOf(<<<<0, 0>>, <<0, 0>>>>)

\* a covariance that has no inverse: the covariance of (x, 7 x)
RankOne == FloatsOf(<<<<1, 7>>, <<7, 49>>>>)

\* a covariance that is not square
Oblong == FloatsOf(<<<<1, 0, 0>>, <<0, 1, 0>>>>)

\* a matrix that has an inverse and is the covariance of nothing: -1
Indefinite == FloatsOf(<<<<-1>>>>)

MuSet == UNION {{ZeroVector(n), EndsVector(n)} : n \in 1..MaxN}

CovSet ==
    {Identity(n) : n \in 1..MaxN} \cup {Correlated, AllZeros, RankOne, Oblong, Indefinite}

\* two points of the unit sphere of dimension n
PointSet(n) == <<UnitVector(n, n), Negated(UnitVector(n, 1))>>

\* p rows that take the two points in turn
Points(n, p) == [k \in 1..p |-> PointSet(n)[1 + (k % 2)]]

\* p rows of which the last is the origin
WithOrigin(n, p) == [k \in 1..p |-> IF k = p THEN ZeroVector(n) ELSE PointSet(n)[1]]

\* the point (0.6, 0.8) of the unit circle, whose coordinates and whose norm
\* no float holds exactly
Slanted == <<FDiv[FromInt(3), FromInt(5)], FDiv[FromInt(4), FromInt(5)]>>

\* single points and batches of MaxPoints points, a batch that ends in the
\* origin, and the point (0.6, 0.8) alone
YSet ==
    {Points(n, p) : n \in 1..MaxN, p \in {1, MaxPoints}}
    \cup {WithOrigin(n, MaxPoints) : n \in 1..MaxN}
    \cup {<<Slanted>>}

\* whether mu m, covariance c and points p have the shapes of the
\* documentation: (n_dim), (n_dim x n_dim) and (n_points x n_dim)
Agree(m, c, p) == IsSquare(c) /\ Len(m) = NRows(c) /\ NCols(p) = NRows(c)

\* the arguments of the calls of log_pdf and pdf: those of agreeing shapes
\* with either mean, and those of every other combination of shapes with the
\* mean of zeros
Arguments ==
    {a \in MuSet \X CovSet \X YSet :
        Agree(a[1], a[2], a[3]) \/ a[1] = ZeroVector(Len(a[1]))}

AlphaSet == {<<FromInt(a)>> : a \in (-MaxAlpha)..MaxAlpha} \cup {<<NaN>>}

\* ------------------------------------------------------------------------
\* State
\* ------------------------------------------------------------------------

VARIABLES
    fn,          \* the function the caller called: "pdf", "log_pdf", "_M_value"
    pc,          \* where the call stands
    mu,          \* argument of pdf and log_pdf
    covariance,  \* argument of pdf and log_pdf
    y,           \* argument of pdf and log_pdf
    alpha,       \* argument of _M_value (a local of log_pdf when it calls)
    n_dim,       \* argument of _M_value (a local of log_pdf when it calls)
    precision,   \* local of log_pdf
    q1,          \* local of log_pdf
    q2,          \* local of log_pdf
    q3,          \* local of log_pdf
    M_vals,      \* local of _M_value: the list of two values
    i,           \* local of _M_value: the next value of the loop variable
    M,           \* local of log_pdf: what _M_value returned
    lpdf,        \* local of pdf: what log_pdf returned
    ret,         \* what the call returned to the caller
    err,         \* the error the call raised to the caller
    passed,      \* history: the arguments as they were when the call was made
    iters,       \* history: passes of the loop body in the current call
    again,       \* history: the call repeats the one before it
    before       \* history: outcome of the call before, when again

vars == <<kernel, fn, pc, mu, covariance, y, alpha, n_dim, precision, q1, q2, q3,
          M_vals, i, M, lpdf, ret, err, passed, iters, again, before>>

args == <<mu, covariance, y, alpha, n_dim>>

logPdfLocals == <<precision, q1, q2, q3, M>>

mLocals == <<M_vals, i>>

history == <<passed, again, before>>

NoTensor == <<>>

Init ==
    /\ kernel = NoCalls
    /\ fn = "none"
    /\ pc = "idle"
    /\ mu = NoTensor /\ covariance = NoTensor /\ y = NoTensor
    /\ alpha = NoTensor /\ n_dim = 0
    /\ precision = NoTensor /\ q1 = 0 /\ q2 = NoTensor /\ q3 = NoTensor
    /\ M_vals = NoTensor /\ i = 0 /\ M = NoTensor /\ lpdf = NoTensor
    /\ ret = NoTensor /\ err = ""
    /\ passed = <<NoTensor, NoTensor, NoTensor, NoTensor, 0>>
    /\ iters = 0 /\ again = FALSE /\ before = Returns(NoTensor)

\* ------------------------------------------------------------------------
\* Calls
\* ------------------------------------------------------------------------

\* the calls of S are made to the library
Library(S) == kernel' \in Builds(kernel, S)

\* a caller calls f(m, c, p), f being log_pdf or pdf
CallDensity(f) ==
    /\ pc = "idle"
    /\ \E a \in Arguments :
          /\ mu' = a[1] /\ covariance' = a[2] /\ y' = a[3]
          /\ passed' = <<a[1], a[2], a[3], NoTensor, 0>>
    /\ fn' = f /\ pc' = "inv"
    /\ UNCHANGED <<kernel, alpha, n_dim, logPdfLocals, mLocals, lpdf, ret, err, iters,
                   again, before>>

Call_log_pdf == CallDensity("log_pdf")

Call_pdf == CallDensity("pdf")

\* a caller calls _M_value(a, n) directly
Call_M_value ==
    /\ pc = "idle"
    /\ \E a \in AlphaSet, n \in 1..MaxDim :
          /\ alpha' = a /\ n_dim' = n
          /\ passed' = <<NoTensor, NoTensor, NoTensor, a, n>>
    /\ fn' = "_M_value" /\ pc' = "M_entry"
    /\ UNCHANGED <<kernel, mu, covariance, y, logPdfLocals, mLocals, lpdf, ret, err,
                   iters, again, before>>

\* the caller drops what the call gave it.  What the library returned goes
\* with it: the calls that follow are those of any build, this one or another
Forget ==
    /\ pc \in {"done", "raised"}
    /\ fn' = "none" /\ pc' = "idle"
    /\ mu' = NoTensor /\ covariance' = NoTensor /\ y' = NoTensor
    /\ alpha' = NoTensor /\ n_dim' = 0
    /\ ret' = NoTensor /\ err' = ""
    /\ passed' = <<NoTensor, NoTensor, NoTensor, NoTensor, 0>>
    /\ iters' = 0 /\ again' = FALSE /\ before' = Returns(NoTensor)
    /\ kernel' = NoCalls
    /\ UNCHANGED <<logPdfLocals, mLocals, lpdf>>

\* the caller makes the same call once more, with the tensors it passed before
CallAgain ==
    /\ pc \in {"done", "raised"}
    /\ pc' = IF fn = "_M_value" THEN "M_entry" ELSE "inv"
    /\ again' = TRUE
    /\ before' = [raised |-> err, value |-> ret]
    /\ ret' = NoTensor /\ err' = ""
    /\ passed' = args
    /\ UNCHANGED <<kernel, fn, args, logPdfLocals, mLocals, lpdf, iters>>

\* ------------------------------------------------------------------------
\* log_pdf
\* ------------------------------------------------------------------------

\* an error leaves log_pdf (and pdf, which does not catch it) for the caller
Propagate(e) ==
    /\ pc' = "raised" /\ err' = e /\ ret' = NoTensor
    /\ precision' = NoTensor /\ q1' = 0 /\ q2' = NoTensor /\ q3' = NoTensor
    /\ M' = NoTensor /\ alpha' = NoTensor /\ n_dim' = 0

\* n_dim = torch.tensor(mu.size(0)); precision = torch.linalg.inv(covariance)
LogPdfInv ==
    /\ pc = "inv"
    /\ LET inv == LinalgInv(covariance)
       IN  IF inv.raised # ""
           THEN Propagate(inv.raised)
           ELSE /\ pc' = "einsum"
                /\ n_dim' = NDimOf(mu)
                /\ precision' = inv.value
                /\ UNCHANGED <<alpha, q1, q2, q3, M, ret, err>>
    /\ UNCHANGED <<kernel, fn, mu, covariance, y, mLocals, lpdf, iters, history>>

\* q1, q2, q3 = torch.einsum(...); alpha = q2 / torch.sqrt(q3)
LogPdfEinsum ==
    /\ pc = "einsum"
    /\ IF ~EinsumShapesOk(mu, precision, y)
       THEN Propagate("DimensionMismatchError")
       ELSE /\ pc' = "M_entry"
            /\ q1' = Q1Of(mu, precision)
            /\ q2' = Q2Of(mu, precision, y)
            /\ q3' = Q3Of(precision, y)
            /\ alpha' = AlphaOf(q2', q3')
            /\ UNCHANGED <<n_dim, precision, M, ret, err>>
    /\ UNCHANGED <<kernel, fn, mu, covariance, y, mLocals, lpdf, iters, history>>

\* term1 .. term5; lpdf = term1 + term2 + term3 + term4 + term5; return lpdf
LogPdfTerms ==
    /\ pc = "terms"
    /\ Library(CallsOfTerms(covariance, q3, M))
    /\ \E v \in {[n_dim |-> n_dim, f |-> LUOfTensor(covariance), q1 |-> q1, q3 |-> q3,
                  alpha |-> alpha, M |-> M]} :
          \E l \in {LpdfGiven(v.n_dim, v.f, v.q1, v.q3, v.alpha, v.M)'} :
              IF fn = "log_pdf"
              THEN pc' = "done" /\ ret' = l /\ lpdf' = NoTensor
              ELSE pc' = "exp" /\ ret' = NoTensor /\ lpdf' = l
    /\ precision' = NoTensor /\ q1' = 0 /\ q2' = NoTensor /\ q3' = NoTensor
    /\ M' = NoTensor /\ alpha' = NoTensor /\ n_dim' = 0
    /\ UNCHANGED <<fn, mu, covariance, y, mLocals, err, iters, history>>

\* ------------------------------------------------------------------------
\* pdf
\* ------------------------------------------------------------------------

\* pdf = torch.exp(lpdf); return pdf
PdfExp ==
    /\ pc = "exp"
    /\ pc' = "done"
    /\ Library(CallsOfExp(lpdf))
    /\ \E l \in {lpdf} : ret' = ExpOf(l)'
    /\ lpdf' = NoTensor
    /\ UNCHANGED <<fn, args, logPdfLocals, mLocals, err, iters, history>>

\* ------------------------------------------------------------------------
\* _M_value
\* ------------------------------------------------------------------------

\* normal_dist.cdf(alpha) raises ValueError: the error leaves _M_value for
\* its caller, and log_pdf (and pdf), which does not catch it, for its own
MRaise ==
    /\ pc' = "raised" /\ err' = "ValueError" /\ ret' = NoTensor
    /\ IF fn = "_M_value"
       THEN UNCHANGED <<alpha, n_dim, logPdfLocals>>
       ELSE /\ precision' = NoTensor /\ q1' = 0 /\ q2' = NoTensor /\ q3' = NoTensor
            /\ M' = NoTensor /\ alpha' = NoTensor /\ n_dim' = 0
    /\ UNCHANGED <<kernel, mLocals, iters>>

\* the same with M2 = exp_alpha + alpha.mul_(M1), which writes the product
\* into the caller's alpha
MEntryInPlace ==
    /\ pc = "M_entry"
    /\ IF CdfRaises(alpha)
       THEN MRaise
       ELSE /\ pc' = "M_loop"
            /\ Library(CallsOfFirstPair(alpha))
            /\ \E a \in {alpha} :
                  /\ M_vals' = FirstPair(a)'
                  /\ alpha' = Entries([k \in 1..Len(a) |-> FMul[a[k], M_vals'[1][k]]])
            /\ i' = 3
            /\ iters' = 0
            /\ UNCHANGED <<n_dim, logPdfLocals, ret, err>>
    /\ UNCHANGED <<fn, mu, covariance, y, lpdf, history>>

\* norm_cdf, exp_alpha, M1, M2; M_vals = [M1, M2]
MEntry ==
    /\ pc = "M_entry"
    /\ IF CdfRaises(alpha)
       THEN MRaise
       ELSE /\ pc' = "M_loop"
            /\ Library(CallsOfFirstPair(alpha))
            /\ \E a \in {alpha} : M_vals' = FirstPair(a)'
            /\ i' = 3
            /\ iters' = 0
            /\ UNCHANGED <<alpha, n_dim, logPdfLocals, ret, err>>
    /\ UNCHANGED <<fn, mu, covariance, y, lpdf, history>>

\* one pass of for i in range(3, n_dim + 1)
MLoopStep ==
    /\ pc = "M_loop"
    /\ i <= n_dim
    /\ M_vals' = LoopBody(M_vals, i, alpha)
    /\ i' = i + 1
    /\ iters' = iters + 1
    /\ UNCHANGED <<kernel, fn, pc, args, logPdfLocals, lpdf, ret, err, history>>

\* return M_vals[1], to log_pdf or to the caller
MReturn ==
    /\ pc = "M_loop"
    /\ i > n_dim
    /\ IF fn = "_M_value"
       THEN pc' = "done" /\ ret' = Returned(M_vals) /\ UNCHANGED M
       ELSE pc' = "terms" /\ M' = Returned(M_vals) /\ UNCHANGED ret
    /\ M_vals' = NoTensor
    /\ i' = 0
    /\ UNCHANGED <<kernel, fn, args, precision, q1, q2, q3, lpdf, err, iters, history>>

Next ==
    \/ Call_log_pdf
    \/ Call_pdf
    \/ Call_M_value
    \/ Forget
    \/ CallAgain
    \/ LogPdfInv
    \/ LogPdfEinsum
    \/ LogPdfTerms
    \/ PdfExp
    \/ MEntry
    \/ MLoopStep
    \/ MReturn

Spec == Init /\ [][Next]_vars


\* ------------------------------------------------------------------------
\* Properties
\* ------------------------------------------------------------------------

Finished == pc \in {"done", "raised"}

DensityCall == fn \in {"log_pdf", "pdf"}

\* the outcome the caller sees
Outcome == [raised |-> err, value |-> ret]

\* the function M of the documentation at the float a: M(1), M(2) and the
\* recurrence M(k) = (k-2) M(k-2) + a M(k-1)
SeriesM[a \in Int, k \in Nat] ==
    IF k = 1 THEN FMul[FSqrt[TwoPi], NormCdf[a]]
    ELSE IF k = 2 THEN FAdd[FExp[FMul[FNeg(Half), FMul[a, a]]], FMul[a, SeriesM[a, 1]]]
    ELSE FAdd[FMul[FromInt(k - 2), SeriesM[a, k - 2]], FMul[a, SeriesM[a, k - 1]]]

SeriesMOf(al, k) == Entries([p \in 1..Len(al) |-> SeriesM[al[p], k]])

\* two floats that differ by no more than one millionth
Close(a, b) == Abs(FSub[a, b]) <= FDiv[One, FromInt(1000000)]

\* (n - 2) * lower + al * upper, entry by entry
RecurrenceOf(n, al, lower, upper) ==
    Entries([p \in 1..Len(al) |->
        FAdd[FMul[FromInt(n - 2), lower[p]], FMul[al[p], upper[p]]]])

\* C1: for n_dim = 1, _M_value returns M(1) = sqrt(2 pi) * Phi(alpha), the
\* first value of the pair, for every alpha.
C1_DimOneReturnsFirst ==
    (pc = "done" /\ fn = "_M_value" /\ n_dim = 1) => ret = SeriesMOf(alpha, 1)

\* C2: for n_dim >= 3 the value _M_value returns equals (n_dim - 2) times what
\* _M_value returns for n_dim - 2 plus alpha times what it returns for
\* n_dim - 1.
C2_ReturnsObeyRecurrence ==
    (pc = "done" /\ fn = "_M_value" /\ n_dim >= 3) =>
        ret = RecurrenceOf(n_dim, alpha, M_value(alpha, n_dim - 2).value,
                           M_value(alpha, n_dim - 1).value)

\* the same recurrence from n_dim = 4 on, where it refers to no call with
\* n_dim = 1
RecurrenceFromFour ==
    (pc = "done" /\ fn = "_M_value" /\ n_dim >= 4) =>
        ret = RecurrenceOf(n_dim, alpha, M_value(alpha, n_dim - 2).value,
                           M_value(alpha, n_dim - 1).value)

\* M(2) of the documentation, entry by entry
SecondOf(al) ==
    Entries([p \in 1..Len(al) |->
        FAdd[FExp[FMul[FNeg(Half), FMul[al[p], al[p]]]],
             FMul[al[p], FMul[FSqrt[TwoPi], NormCdf[al[p]]]]]])

\* C3: for n_dim = 2, _M_value returns M(2) = exp(-alpha^2 / 2) + alpha * M(1)
\* with M(1) = sqrt(2 pi) * Phi(alpha), and the loop body never runs; this is
\* so when a caller calls it and when log_pdf calls it.
C3_DimTwoReturnsSecond ==
    /\ (pc = "done" /\ fn = "_M_value" /\ n_dim = 2) =>
           iters = 0 /\ ret = SecondOf(alpha)
    /\ (pc = "terms" /\ n_dim = 2) =>
           iters = 0 /\ M = SecondOf(alpha)

C3_Witness ==
    /\ pc = "done" /\ fn = "_M_value" /\ n_dim = 2
    /\ alpha = <<One>>
    /\ ret = <<FAdd[FExp[FNeg(Half)], FMul[FSqrt[TwoPi], NormCdf[One]]]>>

\* the integer a float holds, for the floats that hold one below 2^9 in
\* magnitude, and 2^9 for the others
WholeOf[a \in Int] ==
    IF IsZero(a) THEN 0
    ELSE IF Abs(a) < FromInt(2^9) /\ FromInt(IntOf[a]) = a THEN IntOf[a] ELSE 2^9

\* the matrix m without its row r and its column c
Minor(m, r, c) ==
    Entries([a \in 1..(Len(m) - 1) |->
        Entries([b \in 1..(Len(m) - 1) |->
            m[IF a < r THEN a ELSE a + 1][IF b < c THEN b ELSE b + 1]])])

\* the determinant of a square matrix of integers, expanded along its first
\* row
Det[m \in Seq(Seq(Int))] ==
    IF Len(m) = 0 THEN 1
    ELSE LET term[c \in 1..Len(m)] ==
                 (IF c % 2 = 1 THEN 1 ELSE -1) * m[1][c] * Det[Minor(m, 1, c)]
             sum[c \in 0..Len(m)] == IF c = 0 THEN 0 ELSE sum[c - 1] + term[c]
         IN  sum[Len(m)]

\* a square matrix of whole numbers whose determinant is zero: a matrix that
\* has no inverse
Singular(m) ==
    /\ IsSquare(m)
    /\ \A r \in 1..Len(m) : \A c \in 1..Len(m) : WholeOf[m[r][c]] # 2^9
    /\ Det[Entries([r \in 1..Len(m) |-> Entries([c \in 1..Len(m) |-> WholeOf[m[r][c]]])])] = 0

\* the quadratic form u . P . v of vectors of one length
QuadraticForm(u, P, v) ==
    SumProduct(Entries([b \in 1..Len(v) |->
        FMul[SumProduct(Entries([a \in 1..Len(u) |-> FMul[u[a], P[a][b]]])), v[b]]]))

\* term1 + term2 + term3 + term4 + term5 of the documentation at one point,
\* from n, ln det(covariance), q1, q2 and q3 of that point
PointTerms[n \in Nat, ld \in Int, k1 \in Int, k2 \in Int, k3 \in Int] ==
    FAdd[FAdd[FAdd[FAdd[
        FMul[FNeg(FDiv[FromInt(n), Two]), FLog[TwoPi]],
        FMul[FNeg(Half), ld]],
        FMul[FNeg(FDiv[FromInt(n), Two]), FLog[k3]]],
        FMul[Half, FSub[FMul[FDiv[k2, FSqrt[k3]], FDiv[k2, FSqrt[k3]]], k1]]],
        FLog[M_value(<<FDiv[k2, FSqrt[k3]]>>, n).value[1]]]

\* the log-density of the documentation at one point pt, from m, c and pt
\* alone
PointLogDensity(m, c, pt) ==
    Bind(LinalgInv(c).value, LAMBDA P :
        PointTerms[Len(m), LogDet(c), QuadraticForm(m, P, m), QuadraticForm(m, P, pt),
                   QuadraticForm(pt, P, pt)])

\* mu has length n, covariance is n x n and y has n columns
ShapesAgree ==
    /\ Len(mu) = NRows(covariance)
    /\ NCols(covariance) = NRows(covariance)
    /\ NCols(y) = NRows(covariance)

\* C4: for arguments of agreeing shapes and an invertible covariance, log_pdf
\* returns a vector with one entry per row of y, and entry k is term1 + term2
\* + term3_k + term4_k + term5_k computed from mu, covariance and row k of y
\* alone, whatever the other rows are.
C4_LogDensityPerPoint ==
    (fn = "log_pdf" /\ Finished /\ ShapesAgree /\ ~Singular(covariance)) =>
        /\ pc = "done"
        /\ Len(ret) = NRows(y)
        /\ \A k \in 1..NRows(y) : ret[k] = PointLogDensity(mu, covariance, y[k])

\* the same of the calls that return
PerPointWhenReturned ==
    (pc = "done" /\ fn = "log_pdf" /\ ShapesAgree /\ ~Singular(covariance)) =>
        /\ Len(ret) = NRows(y)
        /\ \A k \in 1..NRows(y) : ret[k] = PointLogDensity(mu, covariance, y[k])

PerPointWitness ==
    /\ pc = "done" /\ fn = "log_pdf" /\ ShapesAgree
    /\ mu = EndsVector(2) /\ covariance = Correlated
    /\ NRows(y) = 2 /\ y[1] # y[2]
    /\ ret[1] # ret[2]
    /\ \A k \in 1..2 : ~IsNaN(ret[k]) /\ ~IsInf(ret[k])

\* alpha of the documentation at one point pt, from m, c and pt alone
PointAlpha(m, c, pt) ==
    Bind(LinalgInv(c).value, LAMBDA P :
        FDiv[QuadraticForm(m, P, pt), FSqrt[QuadraticForm(pt, P, pt)]])

\* with agreeing shapes and an invertible covariance, a call returns unless
\* the alpha of one of its points is nan, and then the whole call raises
\* ValueError and returns nothing, whatever its other points are
NanAbortsBatch ==
    (DensityCall /\ Finished /\ ShapesAgree /\ ~Singular(covariance)) =>
        IF \E k \in 1..NRows(y) : IsNaN(PointAlpha(mu, covariance, y[k]))
        THEN pc = "raised" /\ err = "ValueError" /\ ret = NoTensor
        ELSE pc = "done" /\ err = ""

NanAbortsBatchWitness ==
    /\ fn = "log_pdf" /\ pc = "raised" /\ err = "ValueError"
    /\ mu = ZeroVector(2) /\ covariance = Identity(2)
    /\ NRows(y) = 2 /\ y[2] = ZeroVector(2)
    /\ ~IsNaN(PointAlpha(mu, covariance, y[1]))

\* C5: with a covariance that has no inverse, log_pdf (and pdf through it)
\* raises SingularMatrixError at the inversion: the call ends raised, nothing
\* is returned and none of q1, q2, q3, M or lpdf was ever computed.
C5_SingularRaises ==
    (DensityCall /\ pc # "inv" /\ Singular(covariance)) =>
        /\ pc = "raised"
        /\ err = "SingularMatrixError"
        /\ ret = NoTensor
        /\ q1 = 0 /\ q2 = NoTensor /\ q3 = NoTensor
        /\ M = NoTensor /\ lpdf = NoTensor

\* the same for the covariances whose elimination meets a pivot that is zero,
\* as that of the all-zeros matrix
ZeroPivotRaises ==
    (DensityCall /\ pc # "inv" /\ covariance = AllZeros) =>
        /\ pc = "raised"
        /\ err = "SingularMatrixError"
        /\ ret = NoTensor
        /\ q1 = 0 /\ q2 = NoTensor /\ q3 = NoTensor
        /\ M = NoTensor /\ lpdf = NoTensor

\* C6: whenever the shapes disagree (and the inversion raised nothing, so
\* that no other error comes first), log_pdf and pdf end by raising
\* DimensionMismatchError and return nothing.
C6_MismatchRaises ==
    (DensityCall /\ Finished /\ err # "SingularMatrixError" /\ ~ShapesAgree) =>
        /\ pc = "raised"
        /\ err = "DimensionMismatchError"
        /\ ret = NoTensor

\* the same where no two sizes that should agree have one of them equal to 1
MismatchRaisesBeyondOne ==
    (DensityCall /\ Finished /\ err # "SingularMatrixError" /\ ~ShapesAgree
        /\ Len(mu) # 1 /\ NRows(covariance) # 1 /\ NCols(y) # 1) =>
        /\ pc = "raised"
        /\ err = "DimensionMismatchError"
        /\ ret = NoTensor

\* C7: a call of pdf ends as the call of log_pdf on the same arguments ends:
\* raised with the same error when log_pdf raises, and otherwise returning
\* the exponential of each entry log_pdf returns.
C7_PdfIsExpOfLogPdf ==
    /\ (fn = "log_pdf" /\ Finished) => Outcome = log_pdf(mu, covariance, y)
    /\ (fn = "pdf" /\ Finished) =>
           \A l \in {log_pdf(mu, covariance, y)} :
               IF l.raised # ""
               THEN pc = "raised" /\ err = l.raised /\ ret = NoTensor
               ELSE /\ pc = "done" /\ err = ""
                    /\ Len(ret) = Len(l.value)
                    /\ \A k \in 1..Len(ret) : ret[k] = FExp[l.value[k]]

C7_Witness ==
    /\ fn = "pdf" /\ pc = "done"
    /\ mu = EndsVector(3) /\ covariance = Identity(3)
    /\ Len(ret) = 2 /\ ret[1] # ret[2]
    /\ ret[1] > 0 /\ ret[1] < One

\* 1 / SurfaceArea(S^(n-1)): 1/2 for n = 1, 1/(2 pi) for n = 2, and
\* SurfaceArea(S^(n-1)) = 2 pi / (n - 2) * SurfaceArea(S^(n-3)) beyond
InverseSurfaceArea[n \in Nat] ==
    IF n = 1 THEN Half
    ELSE IF n = 2 THEN FDiv[One, TwoPi]
    ELSE FDiv[FMul[FromInt(n - 2), InverseSurfaceArea[n - 2]], TwoPi]

\* C8: with mu = 0 and covariance = I, pdf is 1 / SurfaceArea(S^(n-1)) at
\* every unit-norm point, for every n >= 1.
C8_IsotropicIsUniform ==
    (pc = "done" /\ fn = "pdf" /\ ShapesAgree
        /\ mu = ZeroVector(Len(mu)) /\ covariance = Identity(Len(mu))) =>
        \A k \in 1..Len(ret) : Close(ret[k], InverseSurfaceArea[Len(mu)])

\* the same from n = 2 on
IsotropicFromTwo ==
    (pc = "done" /\ fn = "pdf" /\ ShapesAgree /\ Len(mu) >= 2
        /\ mu = ZeroVector(Len(mu)) /\ covariance = Identity(Len(mu))) =>
        \A k \in 1..Len(ret) : Close(ret[k], InverseSurfaceArea[Len(mu)])

\* C9: a call changes none of the tensors it was passed, leaves nothing
\* behind when it ends (the pair M_vals is made anew by each call), and a call
\* repeated on the same arguments ends as it ended before.
C9_PureAndDeterministic ==
    /\ (pc # "idle" /\ DensityCall) =>
           mu = passed[1] /\ covariance = passed[2] /\ y = passed[3]
    /\ (pc # "idle" /\ fn = "_M_value") =>
           alpha = passed[4] /\ n_dim = passed[5]
    /\ (pc \in {"idle", "done", "raised"}) =>
           /\ M_vals = NoTensor /\ i = 0
           /\ precision = NoTensor /\ q1 = 0 /\ q2 = NoTensor /\ q3 = NoTensor
           /\ M = NoTensor /\ lpdf = NoTensor
    /\ (pc = "M_loop" /\ iters = 0) => M_vals = FirstPair(alpha)
    /\ (Finished /\ again) => Outcome = before

C9_Witness ==
    /\ pc = "done" /\ again
    /\ fn = "_M_value" /\ n_dim = 4
    /\ alpha = <<Two>>
    /\ before.value = ret /\ ret # NoTensor

\* C10: for n_dim >= 2 the pair is (M(1), M(2)) before the loop and
\* (M(i-1), M(i)) after the pass for index i, the passes run for i = 3, 4, ...
\* in turn and there are n_dim - 2 of them when the loop ends, and what is
\* returned is M(n_dim).
C10_PairInvariant ==
    /\ (pc = "M_loop" /\ n_dim >= 2) =>
           /\ Len(M_vals) = 2
           /\ i = iters + 3
           /\ i <= n_dim + 1
           /\ M_vals = <<SeriesMOf(alpha, i - 2), SeriesMOf(alpha, i - 1)>>
    /\ (pc = "done" /\ fn = "_M_value" /\ n_dim >= 2) =>
           /\ iters = n_dim - 2
           /\ ret = SeriesMOf(alpha, n_dim)
    /\ (pc = "terms" /\ n_dim >= 2) =>
           /\ iters = n_dim - 2
           /\ M = SeriesMOf(alpha, n_dim)

C10_Witness ==
    /\ pc = "M_loop" /\ fn = "_M_value"
    /\ n_dim = 5 /\ i = 5 /\ iters = 2
    /\ alpha = <<FNeg(One)>>
    /\ M_vals[1] # M_vals[2]

====
